---- MODULE Spec2Model ----
(***************************************************************************)
(* Briefly: signup/login, onboarding profile, lesson generation, lesson    *)
(* retrieval and deletion.  The relational store (users, profiles), the    *)
(* document store (lessons) and the requests in flight are the state; one  *)
(* action per database round trip of a handler.                            *)
(***************************************************************************)
EXTENDS Integers, Sequences, FiniteSets, TLC

VARIABLES
    users,            \* the "users" table: a set of rows
    profiles,         \* the "onboarding_status" table: a set of rows
    lessons,          \* the document collection: a set of documents
    userIdDefault,    \* per server process: the value of User.id's default
    profileIdDefault, \* per server process: the value of Profile.id's default
    nextUuid,         \* the next value uuid.uuid4() yields
    now,              \* the wall clock, in seconds
    reqs,             \* the HTTP requests: slot -> request record
    pw                \* the password-hashing harness: plaintexts, hash, verdict

vars == <<users, profiles, lessons, userIdDefault, profileIdDefault, nextUuid, now, reqs, pw>>

None == [none |-> TRUE]

\* ------------------------------------------------------------------ bounds

MaxTail == 2        \* characters that follow the padding of a plaintext
MaxAuthReqs == 3    \* signup and login requests in one behaviour
MaxReqs == 2        \* requests to the protected routes in one behaviour
MaxUuid == 6        \* values uuid.uuid4() may yield in one behaviour
MaxItems == 1       \* lesson items in one provider response

\* ------------------------------------------------------- src/common/security.py

MaxBytes == 72

\* the bytes of one code point
Utf8Bytes(c) ==
    IF c < 128 THEN <<c>>
    ELSE IF c < 2048 THEN <<192 + (c \div 64), 128 + (c % 64)>>
    ELSE IF c < 65536
         THEN <<224 + (c \div 4096), 128 + ((c \div 64) % 64), 128 + (c % 64)>>
    ELSE <<240 + (c \div 262144), 128 + ((c \div 4096) % 64),
           128 + ((c \div 64) % 64), 128 + (c % 64)>>

RECURSIVE Utf8Encode(_)
\* str.encode("utf-8"): the bytes of a sequence of code points, the two
\* halves of the sequence encoded one after the other
Utf8Encode(s) ==
    IF s = <<>> THEN <<>>
    ELSE IF Len(s) = 1 THEN Utf8Bytes(s[1])
    ELSE LET m == Len(s) \div 2
         IN Utf8Encode(SubSeq(s, 1, m)) \o Utf8Encode(SubSeq(s, m + 1, Len(s)))

IsCont(b) == b >= 128 /\ b < 192

\* the number of continuation bytes a lead byte announces, -1 for no lead byte
ContCount(b) ==
    IF b < 128 THEN 0
    ELSE IF b >= 194 /\ b < 224 THEN 1
    ELSE IF b >= 224 /\ b < 240 THEN 2
    ELSE IF b >= 240 /\ b < 245 THEN 3
    ELSE -1

\* a character is decoded at position i: a lead byte followed by all the
\* continuation bytes it announces
DecodesAt(b, i) ==
    LET k == ContCount(b[i])
    IN k >= 0 /\ Len(b) >= i + k /\ \A j \in (i + 1)..(i + k) : IsCont(b[j])

\* the code point decoded at position i
CodePointAt(b, i) ==
    LET h == b[i]
        k == ContCount(h)
    IN IF k = 0 THEN h
       ELSE IF k = 1 THEN (h - 192) * 64 + (b[i + 1] - 128)
       ELSE IF k = 2
            THEN (h - 224) * 4096 + (b[i + 1] - 128) * 64 + (b[i + 2] - 128)
       ELSE (h - 240) * 262144 + (b[i + 1] - 128) * 4096
            + (b[i + 2] - 128) * 64 + (b[i + 3] - 128)

RECURSIVE DecodeRange(_, _, _)
\* the characters decoded at the positions lo..hi of b, in order; a byte at
\* which none is decoded and which belongs to none is dropped
DecodeRange(b, lo, hi) ==
    IF lo > hi THEN <<>>
    ELSE IF lo = hi
         THEN IF DecodesAt(b, lo) THEN <<CodePointAt(b, lo)>> ELSE <<>>
    ELSE LET m == (lo + hi) \div 2
         IN DecodeRange(b, lo, m) \o DecodeRange(b, m + 1, hi)

\* bytes.decode("utf-8", errors="ignore"): undecodable bytes are dropped
Utf8DecodeIgnore(b) == DecodeRange(b, 1, Len(b))

_truncate_to_bytesNoLimit(s, max_bytes) == s

_truncate_to_bytes(s, max_bytes) ==
    LET b == Utf8Encode(s)
    IN IF Len(b) <= max_bytes THEN s
       ELSE Utf8DecodeIgnore(SubSeq(b, 1, max_bytes))

\* ctx.hash of the bcrypt scheme: a salted digest of the secret's bytes.  The
\* digest is kept as the pair it is a function of.
BcryptHash(secret, salt) ==
    [scheme |-> "bcrypt", salt |-> salt, digest |-> Utf8Encode(secret)]

\* ctx.verify: the secret, hashed with the hash's own salt, gives the hash
BcryptVerify(secret, hashed) == BcryptHash(secret, hashed.salt) = hashed

hash_password(plain, salt) == BcryptHash(_truncate_to_bytes(plain, MaxBytes), salt)

verify_password(plain, hashed) == BcryptVerify(_truncate_to_bytes(plain, MaxBytes), hashed)

\* ------------------------------------------------- the password-hashing harness

Salts == {1, 2}
Alphabet == {98, 8364}        \* "b" (one byte), the euro sign (three bytes)
PadLens == {0, MaxBytes - 3, MaxBytes - 2, MaxBytes - 1, MaxBytes}

Pad(n) == [i \in 1..n |-> 97]          \* n times "a"

Tails == UNION {[1..n -> Alphabet] : n \in 0..MaxTail}

Plaintexts == {Pad(n) \o t : n \in PadLens, t \in Tails}

PwIdle == [pc |-> "idle"]

InitHash ==
    /\ users = {}
    /\ profiles = {}
    /\ lessons = {}
    /\ userIdDefault = <<>>
    /\ profileIdDefault = <<>>
    /\ nextUuid = 1
    /\ now = 0
    /\ reqs = <<>>
    /\ \E p \in Plaintexts, q \in Plaintexts :
           pw = [pc |-> "start", p |-> p, q |-> q, h |-> None, ok |-> FALSE]

HashStep ==
    /\ pw.pc = "start"
    /\ \E salt \in Salts :
           pw' = [pw EXCEPT !.pc = "hashed", !.h = hash_password(pw.p, salt)]
    /\ UNCHANGED <<users, profiles, lessons, userIdDefault, profileIdDefault, nextUuid, now, reqs>>

VerifyStep ==
    /\ pw.pc = "hashed"
    /\ pw' = [pw EXCEPT !.pc = "verified", !.ok = verify_password(pw.q, pw.h)]
    /\ UNCHANGED <<users, profiles, lessons, userIdDefault, profileIdDefault, nextUuid, now, reqs>>

NextHash == HashStep \/ VerifyStep

SpecHash == InitHash /\ [][NextHash]_vars

\* the longest prefix of whole characters of s whose encoding fits in n bytes
CharPrefix(s, n) ==
    LET fits == {k \in 0..Len(s) : Len(Utf8Encode(SubSeq(s, 1, k))) <= n}
    IN SubSeq(s, 1, CHOOSE k \in fits : \A j \in fits : j <= k)

\* C5 (as claimed): verify_password(p, hash_password(p)) is true and
\* verify_password(q, hash_password(p)) is false whenever q differs from p,
\* for plaintexts of any length.
C5_AnyOtherPlaintextFails ==
    pw.pc = "verified" => (pw.ok <=> pw.q = pw.p)

\* C5 (amended): verify_password(p, hash_password(p)) is true, and
\* verify_password(q, hash_password(p)) is true exactly when q and p have the
\* same longest whole-character prefix of at most 72 UTF-8 bytes; so it is
\* false for every q that differs from p when both encode to at most 72 bytes.
C5_RoundTripUpTo72Bytes ==
    pw.pc = "verified" =>
        /\ pw.q = pw.p => pw.ok
        /\ pw.ok <=> CharPrefix(pw.q, MaxBytes) = CharPrefix(pw.p, MaxBytes)
        /\ (Len(Utf8Encode(pw.p)) <= MaxBytes /\ Len(Utf8Encode(pw.q)) <= MaxBytes)
               => (pw.ok <=> pw.q = pw.p)

\* a plaintext longer than 72 bytes that ends in a split character was hashed
\* and a different plaintext was verified against it
C5_Witness ==
    /\ pw.pc = "verified"
    /\ Len(Utf8Encode(pw.p)) > MaxBytes
    /\ Len(Utf8Encode(CharPrefix(pw.p, MaxBytes))) < MaxBytes
    /\ pw.q # pw.p
    /\ pw.ok

\* ---------------------------------------------------------------- the stores

Procs == {"p1", "p2"}       \* server processes serving the same databases
Slots == DOMAIN reqs

\* the defaults the two processes evaluated at their start
InitUserIdDefault == [w \in Procs |-> IF w = "p1" THEN 1 ELSE 2]
InitProfileIdDefault == [w \in Procs |-> IF w = "p1" THEN 3 ELSE 4]
InitNextUuid == 1 + 2 * Cardinality(Procs)

Idle == [kind |-> "idle", pc |-> "idle"]

InFlight(i) == reqs[i].pc \notin {"idle", "done"}

\* the slots are taken in order
CanStart(i) == reqs[i].pc = "idle" /\ \A j \in 1..(i - 1) : reqs[j].pc # "idle"

Others == <<profiles, lessons, pw>>

\* The async handlers of one process share its event loop: a handler that is
\* between two blocking store calls with no await in between (the Profile
\* query and the default Profile's commit; find_one and delete_one) holds the
\* loop, and no other async handler of that process runs meanwhile.
EventLoopBusy(w) ==
    \E j \in DOMAIN reqs :
        /\ InFlight(j)
        /\ reqs[j].w = w
        /\ \/ reqs[j].kind = "generate" /\ reqs[j].pc = "default"
           \/ reqs[j].kind = "delete" /\ reqs[j].pc = "delete"

\* The server process is started again: the module-level expressions
\* default=uuid.uuid4() of User.id and Profile.id are evaluated once more.
Restart(w) ==
    /\ nextUuid + 1 <= MaxUuid
    /\ \A i \in DOMAIN reqs : InFlight(i) => reqs[i].w # w
    /\ userIdDefault' = [userIdDefault EXCEPT ![w] = nextUuid]
    /\ profileIdDefault' = [profileIdDefault EXCEPT ![w] = nextUuid + 1]
    /\ nextUuid' = nextUuid + 2
    /\ UNCHANGED <<users, profiles, lessons, now, reqs, pw>>

\* ------------------------------------------------------------ src/auth/schemas.py

MaxUsernameLen == 32
MinPasswordLen == 6

UserCreateValid(body) ==
    /\ Len(body.username) <= MaxUsernameLen
    /\ Len(body.password) >= MinPasswordLen

UserResponse(row) ==
    [id |-> row.id, email |-> row.email, username |-> row.username,
     created_at |-> row.created_at, updated_at |-> row.updated_at]

\* ------------------------------------------------------------- src/auth/models.py

UniqueViolationUsernameOnly(table, row) ==
    \E u \in table : u.username = row.username

\* unique=True on User.email and User.username
UniqueViolation(table, row) ==
    \E u \in table : u.email = row.email \/ u.username = row.username

\* primary_key=True on User.id
PrimaryKeyViolation(table, row) == \E u \in table : u.id = row.id

\* ------------------------------------------------------------ src/common/security.py

TokenTTL == 3599

jwt_encode(data) == [payload |-> data, sig |-> "valid"]

create_access_token(data, t) ==
    jwt_encode([sub |-> data.sub, email |-> data.email, exp |-> t + TokenTTL])

\* ------------------------------------------------------------- src/auth/routes.py

Names == {<<97>>, <<98>>}                \* "a", "b": emails and usernames
LongName == Pad(MaxUsernameLen + 1)
Pw1 == <<115, 101, 99, 114, 101, 116>>   \* "secret"
Pw2 == <<115, 101, 99, 114, 101, 117>>   \* "secreu"
PwShort == <<112, 119>>                  \* "pw"
Hosts == {"h1", "h2"}                    \* the callers' addresses at login
SignupHosts == {"h1"}                    \* the callers' addresses at signup
SignupSalts == {1}                       \* the salts bcrypt draws at signup

SignupBodies ==
    [email : Names, username : Names \cup {LongName}, password : {Pw1, PwShort}]

\* db.query(User).filter((User.email == x) | (User.username == y)): the rows
Matching(email, username) ==
    {u \in users : u.email = email \/ u.username = username}

\* signup, to the answer of its existence query
SignupReceive(i, w, host, body) ==
    /\ CanStart(i)
    /\ reqs' = [reqs EXCEPT ![i] =
          IF ~UserCreateValid(body)
          THEN [kind |-> "signup", pc |-> "done", status |-> 422,
                dup |-> FALSE, valid |-> FALSE, added |-> FALSE, resp |-> None]
          ELSE IF Matching(body.email, body.username) # {}
          THEN [kind |-> "signup", pc |-> "done", status |-> 409,
                dup |-> TRUE, valid |-> TRUE, added |-> FALSE, resp |-> None]
          ELSE [kind |-> "signup", pc |-> "insert", w |-> w, host |-> host,
                body |-> body]]
    /\ UNCHANGED <<users, userIdDefault, profileIdDefault, nextUuid, now>>
    /\ UNCHANGED Others

\* signup, from db.add to its answer
SignupCommit(i) ==
    /\ reqs[i].kind = "signup" /\ reqs[i].pc = "insert"
    /\ \E salt \in SignupSalts :
         LET r == reqs[i]
             row == [id |-> userIdDefault[r.w], email |-> r.body.email,
                     username |-> r.body.username,
                     password |-> hash_password(r.body.password, salt),
                     created_at |-> now, updated_at |-> now,
                     user_last_login_ip |-> r.host]
             held == \E u \in users :
                        u.email = r.body.email \/ u.username = r.body.username
         IN IF PrimaryKeyViolation(users, row) \/ UniqueViolation(users, row)
            THEN /\ users' = users
                 /\ reqs' = [reqs EXCEPT ![i] =
                       [kind |-> "signup", pc |-> "done", status |-> 500,
                        dup |-> held, valid |-> TRUE, added |-> FALSE, resp |-> None]]
            ELSE /\ users' = users \cup {row}
                 /\ reqs' = [reqs EXCEPT ![i] =
                       [kind |-> "signup", pc |-> "done", status |-> 200,
                        dup |-> held, valid |-> TRUE, added |-> TRUE,
                        resp |-> UserResponse(row)]]
    /\ UNCHANGED <<userIdDefault, profileIdDefault, nextUuid, now>>
    /\ UNCHANGED Others

LoginRejectsNoPasswordCheck(db_user, password) == db_user = None

LoginRejects(db_user, password) ==
    db_user = None \/ ~verify_password(password, db_user.password)

\* login, to the 401 or to the issued token
LoginQuery(i, host, identifier, password) ==
    /\ CanStart(i)
    /\ LET found == Matching(identifier, identifier)
       IN \E db_user \in (IF found = {} THEN {None} ELSE found) :
            reqs' = [reqs EXCEPT ![i] =
               IF LoginRejects(db_user, password)
               THEN [kind |-> "login", pc |-> "done", status |-> 401,
                     nomatch |-> (found = {}),
                     pwfail |-> (found # {} /\ ~verify_password(password, db_user.password)),
                     resp |-> [detail |-> "Invalid Credentials"]]
               ELSE [kind |-> "login", pc |-> "commit", w |-> "none", host |-> host,
                     nomatch |-> (found = {}),
                     pwfail |-> (found # {} /\ ~verify_password(password, db_user.password)),
                     user |-> db_user.id,
                     token |-> create_access_token(
                                  [sub |-> db_user.id, email |-> db_user.email], now)]]
    /\ UNCHANGED <<users, userIdDefault, profileIdDefault, nextUuid, now>>
    /\ UNCHANGED Others

\* login, from the assignment of the caller's address to the answer
LoginCommit(i) ==
    /\ reqs[i].kind = "login" /\ reqs[i].pc = "commit"
    /\ LET r == reqs[i]
       IN /\ users' = {IF u.id = r.user
                       THEN [u EXCEPT !.user_last_login_ip = r.host, !.updated_at = now]
                       ELSE u : u \in users}
          /\ reqs' = [reqs EXCEPT ![i] =
                [kind |-> "login", pc |-> "done", status |-> 200,
                 nomatch |-> r.nomatch, pwfail |-> r.pwfail,
                 resp |-> [access_token |-> r.token, token_type |-> "Bearer"]]]
    /\ UNCHANGED <<userIdDefault, profileIdDefault, nextUuid, now>>
    /\ UNCHANGED Others

InitAuth ==
    /\ users = {}
    /\ profiles = {}
    /\ lessons = {}
    /\ userIdDefault = InitUserIdDefault
    /\ profileIdDefault = InitProfileIdDefault
    /\ nextUuid = InitNextUuid
    /\ now = 0
    /\ reqs = [i \in 1..MaxAuthReqs |-> Idle]
    /\ pw = PwIdle

NextAuth ==
    \/ \E w \in Procs : Restart(w)
    \/ \E i \in Slots, w \in Procs, host \in SignupHosts, body \in SignupBodies :
          SignupReceive(i, w, host, body)
    \/ \E i \in Slots : SignupCommit(i)
    \/ \E i \in Slots, host \in Hosts, identifier \in Names, password \in {Pw1, Pw2} :
          LoginQuery(i, host, identifier, password)
    \/ \E i \in Slots : LoginCommit(i)

SpecAuth == InitAuth /\ [][NextAuth]_vars

\* ------------------------------------------------------------ src/common/security.py

\* decode(token, key, algorithms=["HS256"]): the signature, then the expiry
jwt_decode(token, t) ==
    IF token.sig = "valid" /\ ("exp" \in DOMAIN token.payload => token.payload.exp > t)
    THEN token.payload
    ELSE None

\* the User the bearer token stands for, None for the 401
get_current_user(token, t) ==
    LET payload == jwt_decode(token, t)
    IN IF payload = None THEN None
       ELSE IF "email" \notin DOMAIN payload THEN None
       ELSE LET found == {u \in users : u.email = payload.email}
            IN IF found = {} THEN None ELSE CHOOSE u \in found : TRUE

\* str(uuid) and uuid.UUID(str)
UuidToStr(u) == [str |-> u]
StrToUuid(x) == x.str

\* ------------------------------------------------------------ src/lessons/schemas.py

MinLessons == 1
MaxLessons == 20

LessonRequestValidNoUpperBound(body) == body.num_of_lessons >= MinLessons

\* num_of_lessons: int = Field(5, ge=1, le=20)
LessonRequestValid(body) ==
    body.num_of_lessons >= MinLessons /\ body.num_of_lessons <= MaxLessons

RequiredItemFields ==
    {"lesson_number", "title", "description", "duration", "difficulty", "tags", "content"}
OptionalItemFields == {"key_points", "exercises"}

\* LessonItem(**item) validates: every required field is there
LessonItemValid(item) == RequiredItemFields \subseteq DOMAIN item

\* LessonItem(**item): the schema's fields, the optional ones None when
\* absent; other keys are dropped
LessonItem(item) ==
    [f \in RequiredItemFields \cup OptionalItemFields |->
        IF f \in DOMAIN item THEN item[f] ELSE "null"]

LessonItems(items) == [k \in DOMAIN items |-> LessonItem(items[k])]

ItemsValid(items) == \A k \in DOMAIN items : LessonItemValid(items[k])

\* ------------------------------------------------------------- src/common/utils.py

LearningTypes == {"TEXT", "VISUAL", "AUDIO"}

DefaultTopics == <<"general programming concepts">>
DefaultGoal == "gain foundational knowledge in various tech areas"
ExpiryHorizon == 90 * 24 * 3600           \* timedelta(days=90), in seconds

DispatchAllToGroq(learning_type) == "groq"

\* if learning_type == LearningType.TEXT: Groq, else: Gemini
Dispatch(learning_type) == IF learning_type = "TEXT" THEN "groq" ELSE "gemini"

\* what a provider's answer may hold as one element of "lessons"
ItemFull ==
    [lesson_number |-> "1", title |-> "t", description |-> "d", duration |-> "10 min",
     difficulty |-> "Beginner", tags |-> "tags", content |-> "content",
     key_points |-> "kp", exercises |-> "ex"]
ItemExtra ==
    [lesson_number |-> "1", title |-> "t", description |-> "d", duration |-> "10 min",
     difficulty |-> "Beginner", tags |-> "tags", content |-> "content",
     key_points |-> "kp", exercises |-> "ex", summary |-> "s"]
ItemShort ==
    [lesson_number |-> "1", title |-> "t", description |-> "d", content |-> "content",
     key_points |-> "kp", exercises |-> "ex"]
Items == {ItemFull, ItemExtra, ItemShort}

ItemLists == UNION {[1..n -> Items] : n \in 0..MaxItems}

\* what the provider call comes back with: an API error, text that is not
\* JSON, JSON without a "lessons" list, or JSON with one
ProviderOutcomes ==
    {[kind |-> "error"], [kind |-> "nonjson"], [kind |-> "nolist"]}
        \cup {[kind |-> "ok", lessons |-> l] : l \in ItemLists}

\* the outcomes the generation flow tells apart: a failed call, a list the
\* response schema accepts, a list it refuses
GenerateOutcomes ==
    {[kind |-> "error"], [kind |-> "nonjson"], [kind |-> "nolist"],
     [kind |-> "ok", lessons |-> <<ItemFull>>],
     [kind |-> "ok", lessons |-> <<ItemShort>>]}

ProfilePrimaryKeyViolation(table, row) == \E p \in table : p.id = row.id

\* the protected routes: the tokens a caller may present
User1 == [id |-> 1, email |-> <<97>>, username |-> <<97>>,
          password |-> hash_password(Pw1, 1), created_at |-> 0, updated_at |-> 1,
          user_last_login_ip |-> "h1"]
User2 == [id |-> 2, email |-> <<98>>, username |-> <<98>>,
          password |-> hash_password(Pw1, 1), created_at |-> 0, updated_at |-> 1,
          user_last_login_ip |-> "h1"]

TokenOf(u, t) == create_access_token([sub |-> u.id, email |-> u.email], t)

Tokens ==
    {TokenOf(User1, 1), TokenOf(User2, 1),      \* issued at second 1
     TokenOf(User1, 0),                         \* issued at second 0
     [TokenOf(User2, 1) EXCEPT !.sig = "bad"]}  \* signed with another key

Unauthorized(kind) == [kind |-> kind, pc |-> "done", status |-> 401]
Unprocessable(kind) == [kind |-> kind, pc |-> "done", status |-> 422]

ProfilesOf(user_id) == {p \in profiles : p.user_id = user_id}

Counts == {MinLessons - 1, MinLessons, MaxLessons, MaxLessons + 1}

\* POST /lessons/generate, to the answer of the Profile query
GenerateReceive(i, w, token, body) ==
    /\ CanStart(i)
    /\ ~EventLoopBusy(w)
    /\ LET user == get_current_user(token, now)
       IN IF user = None
          THEN reqs' = [reqs EXCEPT ![i] = Unauthorized("generate")]
          ELSE IF ~LessonRequestValid(body)
          THEN reqs' = [reqs EXCEPT ![i] = Unprocessable("generate")]
          ELSE LET found == ProfilesOf(user.id)
                   r == [kind |-> "generate", pc |-> "default", w |-> w,
                         user |-> user.id, n |-> body.num_of_lessons,
                         had_profile |-> (found # {}), added |-> 0,
                         groq |-> 0, gemini |-> 0]
               IN IF found = {}
                  THEN reqs' = [reqs EXCEPT ![i] = r]
                  ELSE \E profile \in found :
                         reqs' = [reqs EXCEPT ![i] =
                            [kind |-> "generate", pc |-> "dispatch", w |-> w,
                             user |-> user.id, n |-> body.num_of_lessons,
                             had_profile |-> TRUE, added |-> 0,
                             groq |-> 0, gemini |-> 0,
                             learning_type |-> profile.learning_type,
                             topics |-> profile.topics, goal |-> profile.goal]]
    /\ UNCHANGED <<users, profiles, lessons, userIdDefault, profileIdDefault, nextUuid, now, pw>>

\* generate_lesson_content: the default Profile is added and committed
GenerateDefault(i) ==
    /\ reqs[i].kind = "generate" /\ reqs[i].pc = "default"
    /\ LET r == reqs[i]
           row == [id |-> profileIdDefault[r.w], learning_type |-> "TEXT",
                   topics |-> DefaultTopics, goal |-> DefaultGoal,
                   user_id |-> StrToUuid(UuidToStr(r.user))]
       IN IF ProfilePrimaryKeyViolation(profiles, row)
          THEN /\ profiles' = profiles
               /\ reqs' = [reqs EXCEPT ![i] =
                     [kind |-> "generate", pc |-> "done", status |-> 404,
                      user |-> r.user, had_profile |-> r.had_profile,
                      added |-> r.added, groq |-> r.groq, gemini |-> r.gemini,
                      learning_type |-> "null", inserted |-> None,
                      resp |-> None]]
          ELSE /\ profiles' = profiles \cup {row}
               /\ reqs' = [reqs EXCEPT ![i] =
                     [kind |-> "generate", pc |-> "dispatch", w |-> r.w,
                      user |-> r.user, n |-> r.n, had_profile |-> r.had_profile,
                      added |-> r.added + 1, groq |-> r.groq, gemini |-> r.gemini,
                      learning_type |-> row.learning_type,
                      topics |-> row.topics, goal |-> row.goal]]
    /\ UNCHANGED <<users, lessons, userIdDefault, profileIdDefault, nextUuid, now, pw>>

\* generate_lesson_content from the provider call on (generate_with_groq or
\* generate_with_gemini, then insert_one), and generate_lessons' answer
GenerateProvider(i, outcome) ==
    /\ reqs[i].kind = "generate" /\ reqs[i].pc = "dispatch"
    /\ ~EventLoopBusy(reqs[i].w)
    /\ LET r == reqs[i]
           provider == Dispatch(r.learning_type)
           doc == [_id |-> UuidToStr(nextUuid), user_id |-> UuidToStr(r.user),
                   learning_type |-> r.learning_type, topics |-> r.topics,
                   goal |-> r.goal, num_of_lessons |-> r.n,
                   lessons |-> outcome.lessons,
                   created_at |-> now, expires_at |-> now + ExpiryHorizon]
           done == [kind |-> "generate", pc |-> "done", status |-> 500,
                    user |-> r.user, had_profile |-> r.had_profile,
                    added |-> r.added,
                    groq |-> r.groq + (IF provider = "groq" THEN 1 ELSE 0),
                    gemini |-> r.gemini + (IF provider = "gemini" THEN 1 ELSE 0),
                    learning_type |-> r.learning_type,
                    inserted |-> None, resp |-> None]
       IN IF outcome.kind # "ok"
          THEN \* the provider's error, or the answer that is no "lessons" list
               /\ reqs' = [reqs EXCEPT ![i] = done]
               /\ UNCHANGED <<lessons, nextUuid>>
          ELSE /\ nextUuid <= MaxUuid
               /\ lessons' = lessons \cup {doc}
               /\ nextUuid' = nextUuid + 1
               /\ IF ItemsValid(doc.lessons)
                  THEN reqs' = [reqs EXCEPT ![i] =
                          [done EXCEPT !.status = 201, !.inserted = doc._id,
                             !.resp = [lesson_id |-> doc._id, num_of_lessons |-> r.n,
                                       lessons |-> LessonItems(doc.lessons),
                                       learning_type |-> r.learning_type,
                                       created_at |-> doc.created_at]]]
                  ELSE \* pydantic's ValidationError is a ValueError
                       reqs' = [reqs EXCEPT ![i] =
                          [done EXCEPT !.status = 404, !.inserted = doc._id]]
    /\ UNCHANGED <<users, profiles, userIdDefault, profileIdDefault, now, pw>>

\* ---------------------------------------------------------- src/onboarding/routes.py

Omitted == "omitted"

\* the bodies of POST /onboarding/: topics given, or left out
OnboardingBodies == [learning_type : LearningTypes, topics : {Omitted, <<"t">>}]

OnboardingResponse(row) ==
    [id |-> row.id, learning_type |-> row.learning_type, topics |-> row.topics,
     goal |-> row.goal]

\* nullable=False on Profile.topics, which has no default: a body without
\* topics (exclude_unset=True) leaves the column NULL
NotNullViolation(body) == body.topics = Omitted

\* create_profile, to the answer of its existence query
OnboardingReceive(i, w, token, body) ==
    /\ CanStart(i)
    /\ LET user == get_current_user(token, now)
       IN reqs' = [reqs EXCEPT ![i] =
             IF user = None THEN Unauthorized("onboarding")
             ELSE IF ProfilesOf(user.id) # {}
             THEN [kind |-> "onboarding", pc |-> "done", status |-> 409,
                   user |-> user.id, added |-> 0, resp |-> None]
             ELSE [kind |-> "onboarding", pc |-> "insert", w |-> w,
                   user |-> user.id, body |-> body]]
    /\ UNCHANGED <<users, profiles, lessons, userIdDefault, profileIdDefault, nextUuid, now, pw>>

\* create_profile, from db.add to its answer
OnboardingCommit(i) ==
    /\ reqs[i].kind = "onboarding" /\ reqs[i].pc = "insert"
    /\ LET r == reqs[i]
           row == [id |-> profileIdDefault[r.w], learning_type |-> r.body.learning_type,
                   topics |-> r.body.topics, goal |-> "null", user_id |-> r.user]
       IN IF ProfilePrimaryKeyViolation(profiles, row) \/ NotNullViolation(r.body)
          THEN /\ profiles' = profiles
               /\ reqs' = [reqs EXCEPT ![i] =
                     [kind |-> "onboarding", pc |-> "done", status |-> 500,
                      user |-> r.user, added |-> 0, resp |-> None]]
          ELSE /\ profiles' = profiles \cup {row}
               /\ reqs' = [reqs EXCEPT ![i] =
                     [kind |-> "onboarding", pc |-> "done", status |-> 200,
                      user |-> r.user, added |-> 1, resp |-> OnboardingResponse(row)]]
    /\ UNCHANGED <<users, lessons, userIdDefault, profileIdDefault, nextUuid, now, pw>>

\* ------------------------------------------------------------ src/lessons/routes.py

\* collection.find_one({"_id": lesson_id}): the documents
FindOne(lesson_id) == {d \in lessons : d._id = lesson_id}

LessonIds == {UuidToStr(k) : k \in InitNextUuid..MaxUuid}

\* GET /lessons/{lesson_id}
GetLesson(i, w, token, lesson_id) ==
    /\ CanStart(i)
    /\ ~EventLoopBusy(w)
    /\ LET user == get_current_user(token, now)
           found == FindOne(lesson_id)
       IN IF user = None
          THEN reqs' = [reqs EXCEPT ![i] = Unauthorized("get")]
          ELSE IF found = {}
          THEN reqs' = [reqs EXCEPT ![i] =
                  [kind |-> "get", pc |-> "done", status |-> 404, user |-> user.id,
                   lesson_id |-> lesson_id, doc |-> None, resp |-> None]]
          ELSE \E lesson_doc \in found :
                 reqs' = [reqs EXCEPT ![i] =
                    IF ItemsValid(lesson_doc.lessons)
                    THEN [kind |-> "get", pc |-> "done", status |-> 200,
                          user |-> user.id, lesson_id |-> lesson_id, doc |-> lesson_doc,
                          resp |-> [lesson_id |-> lesson_doc._id,
                                    num_of_lessons |-> lesson_doc.num_of_lessons,
                                    lessons |-> LessonItems(lesson_doc.lessons),
                                    learning_type |-> lesson_doc.learning_type,
                                    created_at |-> lesson_doc.created_at]]
                    ELSE [kind |-> "get", pc |-> "done", status |-> 500,
                          user |-> user.id, lesson_id |-> lesson_id, doc |-> lesson_doc,
                          resp |-> None]]
    /\ UNCHANGED <<users, profiles, lessons, userIdDefault, profileIdDefault, nextUuid, now, pw>>

NotOwnerNever(lesson_doc, user) == FALSE

\* if lesson_doc["user_id"] != str(current_user.id)
NotOwner(lesson_doc, user) == lesson_doc.user_id # UuidToStr(user.id)

\* DELETE /lessons/{lesson_id}, to the answer of find_one and the owner check
DeleteFind(i, w, token, lesson_id) ==
    /\ CanStart(i)
    /\ ~EventLoopBusy(w)
    /\ LET user == get_current_user(token, now)
           found == FindOne(lesson_id)
       IN IF user = None
          THEN reqs' = [reqs EXCEPT ![i] = Unauthorized("delete")]
          ELSE IF found = {}
          THEN reqs' = [reqs EXCEPT ![i] =
                  [kind |-> "delete", pc |-> "done", status |-> 404, user |-> user.id,
                   lesson_id |-> lesson_id, owner |-> None]]
          ELSE \E lesson_doc \in found :
                 reqs' = [reqs EXCEPT ![i] =
                    IF NotOwner(lesson_doc, user)
                    THEN [kind |-> "delete", pc |-> "done", status |-> 403,
                          user |-> user.id, lesson_id |-> lesson_id,
                          owner |-> lesson_doc.user_id]
                    ELSE [kind |-> "delete", pc |-> "delete", w |-> w,
                          user |-> user.id, lesson_id |-> lesson_id,
                          owner |-> lesson_doc.user_id]]
    /\ UNCHANGED <<users, profiles, lessons, userIdDefault, profileIdDefault, nextUuid, now, pw>>

\* DELETE /lessons/{lesson_id}: delete_one, whose count is not looked at
DeleteCommit(i) ==
    /\ reqs[i].kind = "delete" /\ reqs[i].pc = "delete"
    /\ lessons' = lessons \ FindOne(reqs[i].lesson_id)
    /\ reqs' = [reqs EXCEPT ![i] =
          [kind |-> "delete", pc |-> "done", status |-> 204, user |-> reqs[i].user,
           lesson_id |-> reqs[i].lesson_id, owner |-> reqs[i].owner,
           deleted_count |-> Cardinality(FindOne(reqs[i].lesson_id))]]
    /\ UNCHANGED <<users, profiles, userIdDefault, profileIdDefault, nextUuid, now, pw>>

\* the Profile of the second user, made by POST /onboarding/ on process p2
Profile2 == [id |-> InitProfileIdDefault["p2"], learning_type |-> "VISUAL",
             topics |-> <<"t">>, goal |-> "null", user_id |-> User2.id]

\* two users registered with the two processes, both logged in at second 1;
\* the second has gone through onboarding, the first has no Profile
InitGenerate ==
    /\ users = {User1, User2}
    /\ profiles = {Profile2}
    /\ lessons = {}
    /\ userIdDefault = InitUserIdDefault
    /\ profileIdDefault = InitProfileIdDefault
    /\ nextUuid = InitNextUuid
    /\ now = TokenTTL
    /\ reqs = [i \in 1..MaxReqs |-> Idle]
    /\ pw = PwIdle

\* onboarding and lesson generation
NextGenerate ==
    \/ \E w \in Procs : Restart(w)
    \/ \E i \in Slots, w \in Procs, token \in Tokens, n \in Counts :
          GenerateReceive(i, w, token, [num_of_lessons |-> n])
    \/ \E i \in Slots : GenerateDefault(i)
    \/ \E i \in Slots, outcome \in GenerateOutcomes : GenerateProvider(i, outcome)
    \/ \E i \in Slots, w \in Procs, token \in Tokens, body \in OnboardingBodies :
          OnboardingReceive(i, w, token, body)
    \/ \E i \in Slots : OnboardingCommit(i)

SpecGenerate == InitGenerate /\ [][NextGenerate]_vars

\* the Profile the first user's first generation request made on process p1
Profile1 == [id |-> InitProfileIdDefault["p1"], learning_type |-> "TEXT",
             topics |-> DefaultTopics, goal |-> DefaultGoal, user_id |-> User1.id]

\* the batch that request stored
Doc1 == [_id |-> UuidToStr(InitNextUuid), user_id |-> UuidToStr(User1.id),
         learning_type |-> Profile1.learning_type, topics |-> Profile1.topics,
         goal |-> Profile1.goal, num_of_lessons |-> MinLessons,
         lessons |-> <<ItemFull>>, created_at |-> 2,
         expires_at |-> 2 + ExpiryHorizon]

\* as InitGenerate, after the first user's first generation request
InitStore ==
    /\ users = {User1, User2}
    /\ profiles = {Profile1, Profile2}
    /\ lessons = {Doc1}
    /\ userIdDefault = InitUserIdDefault
    /\ profileIdDefault = InitProfileIdDefault
    /\ nextUuid = InitNextUuid + 1
    /\ now = TokenTTL
    /\ reqs = [i \in 1..MaxReqs |-> Idle]
    /\ pw = PwIdle

\* lesson generation, retrieval and deletion
NextStore ==
    \/ \E i \in Slots, w \in Procs, token \in Tokens :
          GenerateReceive(i, w, token, [num_of_lessons |-> MinLessons])
    \/ \E i \in Slots, outcome \in ProviderOutcomes : GenerateProvider(i, outcome)
    \/ \E i \in Slots, w \in Procs, token \in Tokens, lesson_id \in LessonIds :
          GetLesson(i, w, token, lesson_id)
    \/ \E i \in Slots, w \in Procs, token \in Tokens, lesson_id \in LessonIds :
          DeleteFind(i, w, token, lesson_id)
    \/ \E i \in Slots : DeleteCommit(i)

SpecStore == InitStore /\ [][NextStore]_vars


\* ------------------------------------------- src/lessons/routes.py, the listing

\* cursor.sort("created_at", -1): the documents, newest first, documents of
\* the same creation time in any order
SortDescending(docs) ==
    {s \in [1..Cardinality(docs) -> docs] :
        /\ \A a \in DOMAIN s, b \in DOMAIN s : a # b => s[a] # s[b]
        /\ \A a \in DOMAIN s, b \in DOMAIN s : a < b => s[a].created_at >= s[b].created_at}

\* cursor.skip(skip), for skip >= 0 (a negative skip raises ValueError)
CursorSkip(s, skip) == SubSeq(s, skip + 1, Len(s))

Abs(n) == IF n < 0 THEN 0 - n ELSE n

\* cursor.limit(limit): a limit of 0 is no limit, a negative limit the
\* limit of its absolute value
CursorLimit(s, limit) ==
    IF limit = 0 THEN s
    ELSE SubSeq(s, 1, IF Abs(limit) < Len(s) THEN Abs(limit) ELSE Len(s))

\* LessonResponse(lesson_id=..., num_of_lessons=..., lessons=[LessonItem(**item)...], ...)
LessonResponse(lesson) ==
    [lesson_id |-> lesson._id, num_of_lessons |-> lesson.num_of_lessons,
     lessons |-> LessonItems(lesson.lessons), learning_type |-> lesson.learning_type,
     created_at |-> lesson.created_at]

\* collection.find({"user_id": str(current_user.id)})
OwnedBy(user) == {d \in lessons : d.user_id = UuidToStr(user.id)}

\* GET /lessons/user/{user_id}?limit=&skip= ; the path's user_id is not a
\* parameter of the handler
GetUserLessons(i, w, token, user_id, limit, skip) ==
    /\ CanStart(i)
    /\ ~EventLoopBusy(w)
    /\ LET user == get_current_user(token, now)
       IN IF user = None
          THEN reqs' = [reqs EXCEPT ![i] =
                  [kind |-> "list", pc |-> "done", status |-> 401,
                   token |-> token, at |-> now]]
          ELSE LET r == [kind |-> "list", pc |-> "done", status |-> 500,
                         token |-> token, at |-> now, user |-> user.id,
                         path |-> user_id, limit |-> limit, skip |-> skip,
                         seen |-> lessons, resp |-> None]
               IN IF skip < 0
                  THEN reqs' = [reqs EXCEPT ![i] = r]
                  ELSE \E sorted \in SortDescending(OwnedBy(user)) :
                         LET page == CursorLimit(CursorSkip(sorted, skip), limit)
                         IN reqs' = [reqs EXCEPT ![i] =
                               IF \A k \in DOMAIN page : ItemsValid(page[k].lessons)
                               THEN [r EXCEPT !.status = 200,
                                       !.resp = [k \in DOMAIN page |-> LessonResponse(page[k])]]
                               ELSE r]
    /\ UNCHANGED <<users, profiles, lessons, userIdDefault, profileIdDefault, nextUuid, now, pw>>

\* a user whose row has been removed from the table
User3 == [id |-> 0, email |-> <<99>>, username |-> <<99>>,
          password |-> hash_password(Pw1, 1), created_at |-> 0, updated_at |-> 1,
          user_last_login_ip |-> "h1"]

\* the bearer tokens a caller of the listing presents: those of Tokens, one
\* issued to the removed user, and tokens that leave out a claim, signed
\* with JWT_KEY (jwt_encode signs any dict) or with another key
ListTokens ==
    Tokens \cup
    {TokenOf(User3, 1),
     jwt_encode([email |-> User1.email, exp |-> 1 + TokenTTL]),
     jwt_encode([sub |-> User1.id, exp |-> 1 + TokenTTL]),
     [sig |-> "bad", payload |-> [email |-> User1.email, exp |-> 1 + TokenTTL]]}

Limits == {0, 1, 2}
Skips == {0 - 1, 0, 1}

\* lesson generation and the listing
NextList ==
    \/ \E i \in Slots, w \in Procs, token \in Tokens :
          GenerateReceive(i, w, token, [num_of_lessons |-> MinLessons])
    \/ \E i \in Slots, outcome \in GenerateOutcomes : GenerateProvider(i, outcome)
    \/ \E i \in Slots, w \in Procs, token \in ListTokens, user_id \in {User1.id, User2.id},
          limit \in Limits, skip \in Skips :
          GetUserLessons(i, w, token, user_id, limit, skip)

SpecList == InitStore /\ [][NextList]_vars

\* ------------------------------------------------------------ claims on signup/login

Done(i, kind) == reqs[i].kind = kind /\ reqs[i].pc = "done"

\* C1 (as claimed): a signup whose email or username is held by a row when
\* its insert would be committed adds no row and is answered 409, also when
\* the competing row was committed after its existence check had passed.
C1_DuplicateSignupIs409 ==
    \A i \in DOMAIN reqs :
        (Done(i, "signup") /\ reqs[i].dup) =>
            (reqs[i].status = 409 /\ ~reqs[i].added)

\* C2: in every reachable state no two User rows share an email and no two
\* User rows share a username.
C2_EmailAndUsernameUnique ==
    \A u \in users, v \in users :
        u # v => (u.email # v.email /\ u.username # v.username)

\* two rows are stored and a signup that lost the race for a name was refused
C2_Witness ==
    /\ Cardinality(users) = 2
    /\ \E i \in DOMAIN reqs :
          Done(i, "signup") /\ reqs[i].dup /\ reqs[i].status = 500

\* C3 (as claimed): every valid signup whose email and username are both
\* absent from the table succeeds, after any sequence of earlier signups in
\* the same process: it adds one row with a fresh id that holds a hash of
\* the password, and returns the public fields without the password.
C3_FreshSignupSucceeds ==
    \A i \in DOMAIN reqs :
        (Done(i, "signup") /\ reqs[i].valid /\ ~reqs[i].dup) =>
            /\ reqs[i].status = 200
            /\ reqs[i].added
            /\ DOMAIN reqs[i].resp =
                  {"id", "email", "username", "created_at", "updated_at"}
            /\ \E u \in users :
                  /\ UserResponse(u) = reqs[i].resp
                  /\ u.password.scheme = "bcrypt"

\* C4: a login whose identifier matches no User, or whose password does not
\* verify against the stored hash, is answered 401 without a token and
\* changes no User row; a login response holds the token and its type (the
\* token's claims being sub, email and exp) or the 401 detail, never the hash.
C4_FailedLoginIs401 ==
    /\ [](\A i \in DOMAIN reqs :
            (reqs[i].kind = "login" /\ reqs[i].pc # "idle") =>
               /\ (reqs[i].nomatch \/ reqs[i].pwfail) =>
                     /\ reqs[i].pc = "done" /\ reqs[i].status = 401
                     /\ reqs[i].resp = [detail |-> "Invalid Credentials"]
               /\ (reqs[i].pc = "done" /\ reqs[i].status = 200) =>
                     /\ DOMAIN reqs[i].resp = {"access_token", "token_type"}
                     /\ DOMAIN reqs[i].resp.access_token.payload = {"sub", "email", "exp"}
                     /\ \E u \in users :
                           /\ u.id = reqs[i].resp.access_token.payload.sub
                           /\ u.email = reqs[i].resp.access_token.payload.email)
    /\ [][\A i \in DOMAIN reqs :
            (reqs[i].pc = "idle" /\ reqs'[i].kind = "login" /\ reqs'[i].pc = "done"
                /\ reqs'[i].status = 401) => users' = users]_vars

\* a login with a wrong password for an existing user was refused, and one
\* with an unknown identifier too
C4_Witness ==
    /\ users # {}
    /\ \E i \in DOMAIN reqs : Done(i, "login") /\ reqs[i].pwfail /\ reqs[i].status = 401
    /\ \E i \in DOMAIN reqs : Done(i, "login") /\ reqs[i].nomatch /\ reqs[i].status = 401

\* ------------------------------------------------ claims on lesson generation

\* a generate request that got past authentication and body validation
Handled(i) ==
    /\ reqs[i].kind = "generate"
    /\ reqs[i].pc # "idle"
    /\ ~(reqs[i].pc = "done" /\ reqs[i].status \in {401, 422})

\* C6 (as claimed): a generation request by a user who has no Profile at the
\* lookup, after any earlier onboarding and generation requests in the same
\* process, adds exactly one Profile row for that user with preference TEXT
\* and goes on with Groq, never Gemini; when the provider answers with a
\* lessons list, one LessonBatch is inserted.
C6_NoProfileGetsDefault ==
    \A i \in DOMAIN reqs :
        (Handled(i) /\ ~reqs[i].had_profile /\ reqs[i].pc # "default") =>
            /\ reqs[i].added = 1
            /\ \E p \in ProfilesOf(reqs[i].user) : p.learning_type = "TEXT"
            /\ reqs[i].learning_type = "TEXT"
            /\ reqs[i].gemini = 0
            /\ reqs[i].pc = "done" =>
                  /\ reqs[i].groq = 1
                  /\ reqs[i].status # 500 => reqs[i].inserted # None

\* C7: POST /lessons/generate never runs the generator with a lesson count
\* outside 1..20: such a request is answered 422 with no Profile row added
\* and no document inserted (it never reaches a provider call), and every
\* stored LessonBatch records a num_of_lessons between 1 and 20.
C7_CountWithinBounds ==
    /\ [](/\ \A i \in DOMAIN reqs :
               (reqs[i].kind = "generate" /\ reqs[i].pc \in {"default", "dispatch"}) =>
                   (reqs[i].n >= 1 /\ reqs[i].n <= 20)
          /\ \A d \in lessons : d.num_of_lessons >= 1 /\ d.num_of_lessons <= 20)
    /\ [][\A i \in DOMAIN reqs :
            (reqs[i].pc = "idle" /\ reqs'[i] = Unprocessable("generate")) =>
                (profiles' = profiles /\ lessons' = lessons)]_vars

\* a request was refused with 422, and a batch of 20 is stored
C7_Witness ==
    /\ \E i \in DOMAIN reqs : reqs[i] = Unprocessable("generate")
    /\ \E d \in lessons : d.num_of_lessons = MaxLessons

\* C8: a generation request makes no provider call before dispatch and
\* exactly one from dispatch on, Groq if and only if the preference is TEXT,
\* Gemini if and only if it is VISUAL or AUDIO; a request whose call failed
\* has made that one call and no other.
C8_OneProviderCall ==
    \A i \in DOMAIN reqs :
        Handled(i) =>
            /\ reqs[i].pc \in {"default", "dispatch"} =>
                  (reqs[i].groq = 0 /\ reqs[i].gemini = 0)
            /\ (reqs[i].pc = "done" /\ reqs[i].learning_type = "null") =>
                  (reqs[i].groq = 0 /\ reqs[i].gemini = 0)
            /\ (reqs[i].pc = "done" /\ reqs[i].learning_type # "null") =>
                  /\ reqs[i].groq + reqs[i].gemini = 1
                  /\ reqs[i].groq = 1 <=> reqs[i].learning_type = "TEXT"
                  /\ reqs[i].gemini = 1 <=> reqs[i].learning_type \in {"VISUAL", "AUDIO"}
                  /\ \E p \in ProfilesOf(reqs[i].user) :
                        p.learning_type = reqs[i].learning_type

\* a request with a VISUAL or AUDIO preference failed at Gemini, and a TEXT
\* one was served by Groq
C8_Witness ==
    /\ \E i \in DOMAIN reqs :
          /\ Handled(i) /\ reqs[i].pc = "done"
          /\ reqs[i].gemini = 1 /\ reqs[i].status = 500
    /\ \E i \in DOMAIN reqs :
          /\ Handled(i) /\ reqs[i].pc = "done"
          /\ reqs[i].groq = 1 /\ reqs[i].status = 201

\* ------------------------------------------ claims on retrieval and deletion

\* C9: a delete request from a user who is not the owner recorded in the
\* batch is answered 403 and leaves the store unchanged; a batch leaves the
\* store only by the delete step of a request of the user whose id it records.
C9_OnlyOwnerDeletes ==
    /\ [](\A i \in DOMAIN reqs :
            (reqs[i].kind = "delete" /\ reqs[i].pc = "delete") =>
                reqs[i].owner = UuidToStr(reqs[i].user))
    /\ [][/\ \A i \in DOMAIN reqs :
               (reqs[i].pc = "idle" /\ reqs'[i].kind = "delete" /\ reqs'[i].pc = "done"
                  /\ reqs'[i].status = 403) => lessons' = lessons
          /\ \A i \in DOMAIN reqs :
               (reqs[i].pc = "idle" /\ reqs'[i].kind = "delete" /\ reqs'[i].pc # "done") =>
                  \E d \in lessons :
                     d._id = reqs'[i].lesson_id /\ d.user_id = UuidToStr(reqs'[i].user)
          /\ \A d \in lessons :
               d \notin lessons' =>
                  \E i \in DOMAIN reqs :
                     /\ reqs[i].kind = "delete" /\ reqs[i].pc = "delete"
                     /\ reqs'[i].pc = "done" /\ reqs'[i].status = 204
                     /\ reqs[i].lesson_id = d._id
                     /\ UuidToStr(reqs[i].user) = d.user_id]_vars

\* a user who is not the owner was refused with 403, and the owner deleted
\* the batch
C9_Witness ==
    /\ Doc1 \notin lessons
    /\ \E i \in DOMAIN reqs, j \in DOMAIN reqs :
          /\ Done(i, "delete") /\ reqs[i].status = 403
          /\ Done(j, "delete") /\ reqs[j].status = 204
          /\ reqs[i].lesson_id = reqs[j].lesson_id

\* C10 (as claimed): get_lesson, called by the owner of a stored document,
\* returns its id, item sequence, learning preference, creation time and
\* recorded num_of_lessons exactly as stored; for an id absent from the
\* store it returns 404.
C10_GetReturnsStored ==
    \A i \in DOMAIN reqs :
        (Done(i, "get") /\ reqs[i].status # 401) =>
            /\ reqs[i].doc = None => reqs[i].status = 404
            /\ (reqs[i].doc # None /\ reqs[i].doc.user_id = UuidToStr(reqs[i].user)) =>
                  /\ reqs[i].status = 200
                  /\ reqs[i].resp.lesson_id = reqs[i].doc._id
                  /\ reqs[i].resp.lessons = reqs[i].doc.lessons
                  /\ reqs[i].resp.learning_type = reqs[i].doc.learning_type
                  /\ reqs[i].resp.created_at = reqs[i].doc.created_at
                  /\ reqs[i].resp.num_of_lessons = reqs[i].doc.num_of_lessons

\* --------------------------------------------- claims on the stored documents

\* C11 (as claimed): every LessonBatch document in the store has
\* num_of_lessons equal to the length of its lessons sequence, whatever
\* number of items the provider returned.
C11_CountEqualsLength ==
    \A d \in lessons : d.num_of_lessons = Len(d.lessons)

\* ------------------------------------------------------- claims on Profiles

\* C12 (as claimed): in every reachable state, under any interleaving of
\* onboarding and lesson-generation requests of a user, the profile table
\* holds at most one row with that user's id.
C12_AtMostOneProfile ==
    \A u \in users : Cardinality(ProfilesOf(u.id)) <= 1

\* C13 (as claimed): create_profile answers 409 and adds no row for a user
\* who has a Profile; for a user who has none it adds exactly one Profile
\* owned by that user and returns it, for every valid body (also one
\* without topics and goal) and after any earlier profile creation in the
\* same server process.
C13_CreateProfilePersists ==
    \A i \in DOMAIN reqs :
        (Done(i, "onboarding") /\ reqs[i].status # 401) =>
            /\ reqs[i].status = 409 => reqs[i].added = 0
            /\ reqs[i].status # 409 =>
                  /\ reqs[i].status = 200
                  /\ reqs[i].added = 1
                  /\ \E p \in ProfilesOf(reqs[i].user) :
                        OnboardingResponse(p) = reqs[i].resp

\* ------------------------------------------------- claims on authentication

\* the four conditions on a bearer token presented at time t
TokenAdmits(token, t) ==
    /\ token.sig = "valid"
    /\ "exp" \in DOMAIN token.payload => token.payload.exp > t
    /\ {"sub", "email"} \subseteq DOMAIN token.payload
    /\ \E u \in users : u.id = token.payload.sub /\ u.email = token.payload.email

\* C14 (as claimed): a request is let through only if its token has a
\* valid signature, has not reached the expiry set at issue, carries the
\* user id and the email claim and a User with that id and email exists;
\* every other request is answered 401, and a step that answers 401 changes
\* no User, no Profile and no LessonBatch.
C14_OnlyValidTokensPass ==
    /\ [](\A i \in DOMAIN reqs :
            Done(i, "list") =>
               (reqs[i].status # 401 <=> TokenAdmits(reqs[i].token, reqs[i].at)))
    /\ [][\A i \in DOMAIN reqs :
            (reqs[i].pc = "idle" /\ reqs'[i].pc = "done" /\ reqs'[i].status = 401) =>
               (users' = users /\ profiles' = profiles /\ lessons' = lessons)]_vars

\* --------------------------------------------------- claims on the listing

\* C15 (as claimed): get_user_lessons, for an authenticated caller and
\* non-negative skip and limit, returns only batches whose user_id is the
\* caller's, whatever the path says, newest first, without the first `skip`
\* of them and at most `limit` of them, and the empty list when the caller
\* has no batch in that window.
C15_ListIsTheCallersPage ==
    \A i \in DOMAIN reqs :
        (Done(i, "list") /\ reqs[i].status # 401 /\ reqs[i].skip >= 0) =>
            LET mine == {d \in reqs[i].seen : d.user_id = UuidToStr(reqs[i].user)}
                rest == Cardinality(mine) - reqs[i].skip
                size == IF rest < 0 THEN 0
                        ELSE IF rest < reqs[i].limit THEN rest ELSE reqs[i].limit
                page == reqs[i].resp
            IN /\ reqs[i].status = 200
               /\ Len(page) = size
               /\ \A k \in DOMAIN page :
                     \E d \in mine : LessonResponse(d) = page[k]
               /\ \A a \in DOMAIN page, b \in DOMAIN page :
                     a < b => /\ page[a].created_at >= page[b].created_at
                              /\ page[a].lesson_id # page[b].lesson_id
               /\ page # <<>> =>
                     Cardinality({d \in mine : d.created_at > page[1].created_at})
                        <= reqs[i].skip

\* ------------------------------------- claims on the answers of generation

\* C16 (as claimed): a generation request answered 404 or 500 has inserted
\* no LessonBatch, and every stored LessonBatch was inserted by a request
\* answered 201 with that document's id.
C16_AllOrNothing ==
    /\ \A i \in DOMAIN reqs :
          (Done(i, "generate") /\ reqs[i].status \in {404, 500}) =>
              reqs[i].inserted = None
    /\ \A d \in lessons :
          \E i \in DOMAIN reqs :
              /\ Done(i, "generate") /\ reqs[i].status = 201
              /\ reqs[i].inserted = d._id
              /\ reqs[i].resp.lesson_id = d._id

\* C17 (as claimed): a generation request is answered 404 only when the
\* user had no Profile and the default Profile was not persisted; a request
\* that reached its provider call and is not answered 201 (the provider's
\* error, text that is not JSON, JSON without a lessons list, a lessons list
\* whose items fail the response schema) is answered 500.
C17_NotFoundOnlyForProfile ==
    \A i \in DOMAIN reqs :
        (Handled(i) /\ reqs[i].pc = "done") =>
            /\ reqs[i].status = 404 =>
                  (~reqs[i].had_profile /\ reqs[i].added = 0
                      /\ ProfilesOf(reqs[i].user) = {})
            /\ (reqs[i].groq + reqs[i].gemini = 1 /\ reqs[i].status # 201) =>
                  reqs[i].status = 500

\* ------------------------------------------------------ claims on deletion

\* C18 (as claimed): of the delete requests for one lesson id at most one
\* is answered 204, and a request answered 204 has removed the document: one
\* whose document is gone when delete_one runs is answered 404.
C18_OneDeletePerBatch ==
    /\ \A i \in DOMAIN reqs, j \in DOMAIN reqs :
          (/\ i # j
           /\ Done(i, "delete") /\ reqs[i].status = 204
           /\ Done(j, "delete") /\ reqs[j].status = 204) =>
              reqs[i].lesson_id # reqs[j].lesson_id
    /\ \A i \in DOMAIN reqs :
          (Done(i, "delete") /\ reqs[i].status = 204) => reqs[i].deleted_count = 1

\* ---------------------------------------------- claims on stored documents

\* C19 (as claimed): a stored LessonBatch is never modified, it stays in the
\* store until a delete request for its id removes it, whatever its
\* expires_at, and while it is stored a get of its id returns it.
C19_StoredUntilDeleted ==
    /\ [](\A i \in DOMAIN reqs :
            (Done(i, "get") /\ reqs[i].status # 401 /\ reqs[i].doc # None) =>
                /\ reqs[i].status = 200
                /\ reqs[i].resp.lesson_id = reqs[i].doc._id)
    /\ [][\A d \in lessons :
            d \notin lessons' =>
               /\ \A e \in lessons' : e._id # d._id
               /\ \E i \in DOMAIN reqs :
                     /\ reqs[i].kind = "delete" /\ reqs[i].pc = "delete"
                     /\ reqs'[i].pc = "done" /\ reqs[i].lesson_id = d._id]_vars


====
